---- MODULE Spec2Model ----
(***************************************************************************)
(* Sleeptober bot (sleeptober-bot_main.py): the time window resolver, the  *)
(* per-user statistics, the leaderboard ranking with its preview window,   *)
(* and the commands that read and write the stored sleep data.             *)
(*                                                                         *)
(* Numbers.  Python floats are held as fixed-point integers:               *)
(*   - a reading, min, max, deviation, deficit, surplus: whole minutes     *)
(*     (the HH:MM input has exactly that resolution);                      *)
(*   - mean, median, score, legacy_score: units of 1/UNIT minute, where    *)
(*     UNIT = 2 * (24 - UPPER) makes the surplus weight LOWER/(24 - UPPER) *)
(*     and the halving of the score exact;                                 *)
(*   - the square root of the variance is rounded down to the minute.      *)
(* The clock is counted in whole hours since September 1st, 00:00.         *)
(***************************************************************************)
EXTENDS Integers, Sequences, FiniteSets, TLC

VARIABLES
    now,    \* dt.datetime.now(): hours since September 1st, 00:00
    data,   \* the data file: a dict in insertion order, <<[id, rec], ...>>
    out,    \* what the last command computed and replied
    locked, \* DATA_FILE_LOCK: whether the lock is held
    tasks   \* the slept and reset commands in flight, each with its position

vars == <<now, data, out, locked, tasks>>

(***************************************************************************)
(* Program constants.                                                      *)
(***************************************************************************)
None == -1                  \* Python's None in a slot that holds a number
DAYS == 31                  \* slots of a user's record
SATURATED_INDEX == 30       \* get_saturating_sleeptober_index's fallback
LAG_HOURS == 22             \* "yesterday" is now - 22 hours
OCTOBER == 10
LOWER == 8
UPPER == 9
DAY_HOURS == 24
PUNISH_DEFICIT == 1
SCORE_DAYS == 31            \* SCORE_OFFSET = 31 * LOWER * PUNISH_DEFICIT
LEGACY_BASE == 1000
USER_PREVIEW_WINDOW == 2
DEFAULT_TOP_N == 10
DEFAULT_MIN_DAYS == 1
MINUTES == 60               \* hours = hh + mm / 60
SEPTEMBER_DAYS == 30
OCTOBER_DAYS == 31

\* PUNISH_SURPLUS = LOWER / (24 - UPPER), kept as a fraction.
PUNISH_SURPLUS_NUM == LOWER
\* A surplus weight of LOWER / (24 - LOWER): one half.
SurplusDenFromLower == DAY_HOURS - LOWER
PUNISH_SURPLUS_DEN == DAY_HOURS - UPPER
\* Score units per minute.
UNIT == 2 * PUNISH_SURPLUS_DEN

Max(a, b) == IF a >= b THEN a ELSE b
Min(a, b) == IF a <= b THEN a ELSE b

(***************************************************************************)
(* Python sequences.                                                       *)
(***************************************************************************)
\* A slice bound as list slicing resolves it: negative counts from the end.
SliceBound(i, n) == IF i < 0 THEN Max(0, n + i) ELSE Min(i, n)

\* s[a:b], with 0-based bounds.
PySlice(s, a, b) ==
    LET lo == SliceBound(a, Len(s))
        hi == SliceBound(b, Len(s))
    IN  [k \in 1..Max(0, hi - lo) |-> s[lo + k]]

Reverse(s) == [k \in 1..Len(s) |-> s[Len(s) + 1 - k]]

RECURSIVE SeqSum(_)
SeqSum(s) == IF s = <<>> THEN 0 ELSE Head(s) + SeqSum(Tail(s))

RECURSIVE SeqSumSq(_)
SeqSumSq(s) == IF s = <<>> THEN 0 ELSE Head(s) * Head(s) + SeqSumSq(Tail(s))

SeqMin(s) == CHOOSE x \in {s[i] : i \in DOMAIN s} : \A i \in DOMAIN s : x <= s[i]
SeqMax(s) == CHOOSE x \in {s[i] : i \in DOMAIN s} : \A i \in DOMAIN s : x >= s[i]

\* Insert x into the key-sorted s behind every element whose key is not greater.
RECURSIVE InsertByKey(_, _)
InsertByKey(x, s) ==
    IF s = <<>> THEN <<x>>
    ELSE IF x.key < Head(s).key THEN <<x>> \o s
    ELSE <<Head(s)>> \o InsertByKey(x, Tail(s))

\* A stable ascending sort of records by their field key.
RECURSIVE StableSort(_)
StableSort(s) ==
    IF s = <<>> THEN <<>>
    ELSE InsertByKey(s[Len(s)], StableSort(SubSeq(s, 1, Len(s) - 1)))

\* A descending sort that reverses the ascending one: equal keys come out in
\* reverse input order.
sorted_reversing_ties(s, reverse) ==
    IF reverse THEN Reverse(StableSort(s)) ELSE StableSort(s)

\* sorted(iterable, key=..., reverse=...): list.sort keeps equal keys in input
\* order in both directions (it reverses the list before and after sorting).
sorted(s, reverse) ==
    IF reverse THEN Reverse(StableSort(Reverse(s))) ELSE StableSort(s)

\* Largest r with r * r <= x, by bisection.
RECURSIVE SqrtSearch(_, _, _)
SqrtSearch(x, lo, hi) ==
    IF lo >= hi THEN lo
    ELSE LET mid == (lo + hi + 1) \div 2
         IN  IF mid * mid <= x THEN SqrtSearch(x, mid, hi)
             ELSE SqrtSearch(x, lo, mid - 1)

ISqrt(x) == SqrtSearch(x, 0, 46340)

(***************************************************************************)
(* Time window resolver.                                                   *)
(***************************************************************************)
\* datetime.month of an instant of September..November.
month(t) ==
    IF t < 0 THEN OCTOBER - 2
    ELSE IF t < SEPTEMBER_DAYS * DAY_HOURS THEN OCTOBER - 1
    ELSE IF t < (SEPTEMBER_DAYS + OCTOBER_DAYS) * DAY_HOURS THEN OCTOBER
    ELSE OCTOBER + 1

\* datetime.day of an instant of September..November.
day(t) ==
    LET d == t \div DAY_HOURS
    IN  IF month(t) = OCTOBER - 1 THEN d + 1
        ELSE IF month(t) = OCTOBER THEN d - SEPTEMBER_DAYS + 1
        ELSE d - SEPTEMBER_DAYS - OCTOBER_DAYS + 1

\* The same resolver reading the date of the instant itself, without the lag.
get_sleeptober_index_of_today(t) ==
    IF month(t) = OCTOBER THEN day(t) - 1 ELSE None

get_sleeptober_index(t) ==
    LET yesterday == t - LAG_HOURS
    IN  IF month(yesterday) = OCTOBER THEN day(yesterday) - 1 ELSE None

get_saturating_sleeptober_index(t) ==
    LET sleeptober_index == get_sleeptober_index(t)
    IN  IF sleeptober_index = None THEN SATURATED_INDEX ELSE sleeptober_index

(***************************************************************************)
(* Per-user statistics.                                                    *)
(***************************************************************************)
\* The fields of SleepStats the rankings read.  days_unlogged is the numerator
\* of debug's notlogged_heuristic (days_unlogged / 31); raised tells that the
\* computation ended in an exception instead of a value.
SleepStatsFields ==
    {"days", "min", "max", "mean", "median", "deviation", "deficit",
     "surplus", "score", "legacy_score"}

\* min() of an empty list: compute_sleep_stats raises ValueError.
ValueError ==
    [raised |-> TRUE, days |-> 0, days_unlogged |-> 0, min |-> 0, max |-> 0,
     mean |-> 0, median |-> 0, deviation |-> 0, deficit |-> 0, surplus |-> 0,
     score |-> 0, legacy_score |-> 0]

RECURSIVE Deficit(_)
Deficit(hours) ==
    IF hours = <<>> THEN 0
    ELSE (IF Head(hours) < LOWER * MINUTES THEN LOWER * MINUTES - Head(hours) ELSE 0)
         + Deficit(Tail(hours))

RECURSIVE Surplus(_)
Surplus(hours) ==
    IF hours = <<>> THEN 0
    ELSE (IF UPPER * MINUTES < Head(hours) THEN Head(hours) - UPPER * MINUTES ELSE 0)
         + Surplus(Tail(hours))

\* statistics.median, in score units.
Median(hours) ==
    LET srt == StableSort([i \in DOMAIN hours |-> [key |-> hours[i]]])
        n == Len(hours)
    IN  IF n % 2 = 1 THEN UNIT * srt[(n + 1) \div 2].key
        ELSE (UNIT \div 2) * (srt[n \div 2].key + srt[n \div 2 + 1].key)

\* hours_mean <= LOWER + (UPPER - LOWER) * PUNISH_DEFICIT / (PUNISH_DEFICIT + PUNISH_SURPLUS),
\* cross-multiplied: the mean is total / days_logged minutes.
MeanOnDeficitSide(total, days_logged) ==
    LET w == PUNISH_DEFICIT * PUNISH_SURPLUS_DEN + PUNISH_SURPLUS_NUM
    IN  total * w
            <= days_logged * MINUTES
               * (LOWER * w + (UPPER - LOWER) * PUNISH_DEFICIT * PUNISH_SURPLUS_DEN)

\* SCORE_OFFSET, in minutes.
SCORE_OFFSET == SCORE_DAYS * LOWER * PUNISH_DEFICIT * MINUTES

\* compute_sleep_stats(user_data) called at the instant t: the function reads
\* the clock itself for the number of unlogged days.
compute_sleep_stats(user_data, t) ==
    LET hours == SelectSeq(user_data, LAMBDA h : h # None)
        days_logged == Len(hours)
        days_unlogged == get_saturating_sleeptober_index(t) + 1 - days_logged
    IN  IF days_logged = 0 THEN ValueError
        ELSE
        LET total == SeqSum(hours)
            hours_deviation ==
                ISqrt(days_logged * SeqSumSq(hours) - total * total) \div days_logged
            hours_deficit == Deficit(hours)
            hours_surplus == Surplus(hours)
            PUNISH_UNLOGGED == 2 * hours_deviation
            low == MeanOnDeficitSide(total, days_logged)
            hours_deficit_adjusted_for_unlogged ==
                hours_deficit + (IF low THEN days_unlogged * PUNISH_UNLOGGED ELSE 0)
            hours_surplus_adjusted_for_unlogged ==
                hours_surplus + (IF low THEN 0 ELSE days_unlogged * PUNISH_UNLOGGED)
            full_score ==
                UNIT * (SCORE_OFFSET - hours_deficit_adjusted_for_unlogged * PUNISH_DEFICIT)
                - 2 * PUNISH_SURPLUS_NUM * hours_surplus_adjusted_for_unlogged
            sleeptober_score ==
                IF days_unlogged > days_logged THEN full_score \div 2 ELSE full_score
        IN  [raised |-> FALSE,
             days |-> days_logged,
             days_unlogged |-> days_unlogged,
             min |-> SeqMin(hours),
             max |-> SeqMax(hours),
             mean |-> (UNIT * total) \div days_logged,
             median |-> Median(hours),
             deviation |-> hours_deviation,
             deficit |-> hours_deficit,
             surplus |-> hours_surplus,
             score |-> sleeptober_score,
             legacy_score |->
                 UNIT * (LEGACY_BASE * MINUTES * days_logged - hours_deficit)
                 - (UNIT \div 2) * hours_surplus]

(***************************************************************************)
(* The data file: load_data / store_data keep a JSON object, whose keys    *)
(* Python reads back in the order they were written.                       *)
(***************************************************************************)
Keys(d) == {d[i].id : i \in DOMAIN d}

IndexOf(d, user_id) == CHOOSE i \in DOMAIN d : d[i].id = user_id

\* data.get(str(user_id)); <<>> stands for the missing record.
Get(d, user_id) == IF user_id \in Keys(d) THEN d[IndexOf(d, user_id)].rec ELSE <<>>

\* The same write starting from a new record whether or not the user has one.
SetFreshAt(d, user_id, date_index, hours) ==
    LET fresh == [id |-> user_id,
                  rec |-> [k \in 1..DAYS |-> IF k = date_index + 1 THEN hours ELSE None]]
    IN  IF user_id \in Keys(d)
        THEN [i \in DOMAIN d |-> IF d[i].id = user_id THEN fresh ELSE d[i]]
        ELSE Append(d, fresh)

\* data.setdefault(str(user_id), [None for _ in range(31)])[date_index] = hours
SetDefaultAt(d, user_id, date_index, hours) ==
    LET base == IF user_id \in Keys(d) THEN d
                ELSE Append(d, [id |-> user_id, rec |-> [k \in 1..DAYS |-> None]])
    IN  [base EXCEPT ![IndexOf(base, user_id)].rec[date_index + 1] = hours]

\* data.pop(str(user_id), None)
Pop(d, user_id) == SelectSeq(d, LAMBDA e : e.id # user_id)

(***************************************************************************)
(* The clock.  A command that reads the clock twice may find the next hour *)
(* at its second reading.                                                  *)
(***************************************************************************)
\* The instant of the given day of October, at the given hour.
October(d, h) == (SEPTEMBER_DAYS + d - 1) * DAY_HOURS + h

PRE_PERIOD == October(1, 21)       \* yesterday was September 30th
FIRST_NIGHT == October(1, 22)      \* index 0
FIRST_NIGHT_END == October(2, 21)  \* index 0
SECOND_NIGHT == October(2, 22)     \* index 1
LAST_NIGHT == October(32, 21)      \* November 1st, 21:00: index 30
POST_PERIOD == October(32, 22)     \* November 1st, 22:00: yesterday was November 1st

ClockSet == {PRE_PERIOD, FIRST_NIGHT, FIRST_NIGHT_END, SECOND_NIGHT, LAST_NIGHT, POST_PERIOD}

\* The instants the bot's runs pass through.
BotClock == {PRE_PERIOD, FIRST_NIGHT, LAST_NIGHT, POST_PERIOD}

Later(t) == {t} \cup ({t + 1} \cap ClockSet)

(***************************************************************************)
(* Replies.  out records what the last command computed; idle is the state *)
(* before any command.                                                     *)
(***************************************************************************)
\* The hours_slept argument as typed: missing, a number ("8.5", "-1", "25"),
\* two integers around a colon ("7:56", "24:30") or any other text.  A number
\* is held by its worth in minutes.
NoHours == [form |-> "none", hh |-> 0, mm |-> 0]
FloatText(minutes) == [form |-> "float", hh |-> 0, mm |-> minutes]
ClockText(hh, mm) == [form |-> "hh:mm", hh |-> hh, mm |-> mm]
OtherText == [form |-> "text", hh |-> 0, mm |-> 0]

NoStats == [ValueError EXCEPT !.raised = FALSE]

Idle ==
    [op |-> "idle", status |-> "idle", author |-> 0,
     hours_slept |-> NoHours, night |-> None, passed_len |-> 0,
     sleep_stats |-> NoStats, sort_criteria |-> <<>>, sort_stat |-> "score",
     sort_down |-> TRUE, min_days |-> 0, show_top_n |-> 0,
     global_leaderboard |-> <<>>, user_index |-> 0,
     leaderboard_top |-> <<>>, leaderboard_chunk |-> <<>>]

(***************************************************************************)
(* slept                                                                   *)
(***************************************************************************)
\* The day a submission writes, or None when the night is refused.
slept_date_index(night, t) ==
    IF night # None
    THEN LET date_index_cap == get_saturating_sleeptober_index(t)
             date_index == night - 1
         IN  IF 0 <= date_index /\ date_index <= date_index_cap THEN date_index ELSE None
    ELSE get_sleeptober_index(t)

\* The reading in minutes, or None when neither way of reading it accepts it.
parse_hours(hours_slept) ==
    IF hours_slept.form = "float"
    THEN LET hours == hours_slept.mm
         IN  IF 0 <= hours /\ hours <= DAY_HOURS * MINUTES THEN hours ELSE None
    ELSE IF hours_slept.form = "hh:mm"
    THEN LET hh == hours_slept.hh
             mm == hours_slept.mm
         IN  IF \/ 0 <= hh /\ hh < DAY_HOURS /\ 0 <= mm /\ mm < MINUTES
                \/ hh = DAY_HOURS /\ mm = 0
             THEN hh * MINUTES + mm
             ELSE None
    ELSE None

slept_status(hours_slept, date_index) ==
    IF hours_slept.form = "none" THEN "usage"
    ELSE IF parse_hours(hours_slept) = None THEN "bad hours"
    ELSE IF date_index = None THEN "bad night"
    ELSE "ok"

slept(author, hours_slept, night) ==
    LET date_index == slept_date_index(night, now)
        status == slept_status(hours_slept, date_index)
    IN  /\ data' = IF status = "ok"
                   THEN SetDefaultAt(data, author, date_index, parse_hours(hours_slept))
                   ELSE data
        /\ out' = [Idle EXCEPT !.op = "slept", !.status = status, !.author = author,
                                !.hours_slept = hours_slept, !.night = night]
        /\ UNCHANGED now

(***************************************************************************)
(* profile, profile reset                                                  *)
(***************************************************************************)
\* t2 is the clock at compute_sleep_stats' own reading.
profile(target_user_id, t2) ==
    LET asked == [Idle EXCEPT !.op = "profile", !.author = target_user_id]
    IN  /\ \E user_data \in {Get(data, target_user_id)} :
           \E passed \in {PySlice(user_data, 0,
                                  get_saturating_sleeptober_index(now) + 1)} :
           \E sleep_stats \in {compute_sleep_stats(passed, t2)} :
               out' = IF user_data = <<>>
                      THEN [asked EXCEPT !.status = "not slept yet"]
                      ELSE IF sleep_stats.raised
                      THEN [asked EXCEPT !.status = "raised",
                                         !.passed_len = Len(passed)]
                      ELSE [asked EXCEPT !.status = "ok",
                                         !.passed_len = Len(passed),
                                         !.sleep_stats = sleep_stats]
        /\ now' = t2
        /\ UNCHANGED data

\* The start of the four letters the user must type.
confirm_code_expected(author_user_id) == (author_user_id \div 4194304) % 26

reset_status(author, confirm_code) ==
    IF confirm_code = None THEN "asked"
    ELSE IF confirm_code = confirm_code_expected(author) THEN "ok"
    ELSE "wrong code"

reset(author, confirm_code) ==
    LET status == reset_status(author, confirm_code)
    IN  /\ data' = IF status = "ok" THEN Pop(data, author) ELSE data
        /\ out' = [Idle EXCEPT !.op = "reset", !.status = status, !.author = author]
        /\ UNCHANGED now

(***************************************************************************)
(* leaderboard                                                             *)
(***************************************************************************)
\* The linear scan for the requester, from position user_index on.
RECURSIVE FindUser(_, _, _)
FindUser(global_leaderboard, target_user_id, user_index) ==
    IF user_index < Len(global_leaderboard)
       /\ global_leaderboard[user_index + 1].id # target_user_id
    THEN FindUser(global_leaderboard, target_user_id, user_index + 1)
    ELSE user_index

\* A preview that merges only when the window starts inside the top block
\* or right behind it.
preview_merging_late(global_leaderboard, user_index, show_top_n) ==
    IF user_index - USER_PREVIEW_WINDOW <= show_top_n
    THEN [top |-> PySlice(global_leaderboard, 0,
                          Max(show_top_n, user_index + USER_PREVIEW_WINDOW + 1)),
          chunk |-> <<>>]
    ELSE [top |-> PySlice(global_leaderboard, 0, show_top_n),
          chunk |-> PySlice(global_leaderboard, user_index - USER_PREVIEW_WINDOW,
                            user_index + USER_PREVIEW_WINDOW + 1)]

\* A preview whose merged top block is not extended to the requester.
preview_without_extension(global_leaderboard, user_index, show_top_n) ==
    IF user_index - USER_PREVIEW_WINDOW <= show_top_n + 1
    THEN [top |-> PySlice(global_leaderboard, 0, show_top_n),
          chunk |-> <<>>]
    ELSE [top |-> PySlice(global_leaderboard, 0, show_top_n),
          chunk |-> PySlice(global_leaderboard, user_index - USER_PREVIEW_WINDOW,
                            user_index + USER_PREVIEW_WINDOW + 1)]

\* leaderboard_top and leaderboard_chunk.
leaderboard_preview(global_leaderboard, user_index, show_top_n) ==
    IF user_index - USER_PREVIEW_WINDOW <= show_top_n + 1
    THEN [top |-> PySlice(global_leaderboard, 0,
                          Max(show_top_n, user_index + USER_PREVIEW_WINDOW + 1)),
          chunk |-> <<>>]
    ELSE [top |-> PySlice(global_leaderboard, 0, show_top_n),
          chunk |-> PySlice(global_leaderboard, user_index - USER_PREVIEW_WINDOW,
                            user_index + USER_PREVIEW_WINDOW + 1)]

\* The sort criteria the command accepts: none, or a sign and a field.
ValidCriteria(sort_criteria) ==
    \/ sort_criteria = <<>>
    \/ /\ sort_criteria[1] \in {"+", "-"}
       /\ sort_criteria[2] \in SleepStatsFields

\* The (user_id, sleep_stats) pairs of the users with enough days, sorted.
\* The first k users' statistics are computed at the instant t1, the others'
\* at t2.
ranking(d, current_date_index, min_days, sort_stat, sort_down, t1, t2, k) ==
    LET all == [i \in DOMAIN d |->
                  LET sleep_stats ==
                          compute_sleep_stats(
                              PySlice(d[i].rec, 0, current_date_index + 1),
                              IF i <= k THEN t1 ELSE t2)
                  IN  [id |-> d[i].id, sleep_stats |-> sleep_stats,
                       key |-> sleep_stats[sort_stat]]]
        kept == SelectSeq(all, LAMBDA e : e.sleep_stats.days >= min_days)
        srt == sorted(kept, sort_down)
    IN  [raised |-> \E i \in DOMAIN all : all[i].sleep_stats.raised,
         entries |-> [i \in DOMAIN srt |->
                        [id |-> srt[i].id, sleep_stats |-> srt[i].sleep_stats]]]

leaderboard(author, sort_criteria, min_days_arg, show_top_n_arg, t2, k) ==
    LET current_date_index == get_saturating_sleeptober_index(now)
        min_days == Max(0, Min(min_days_arg, current_date_index + 1))
        sort_stat == IF sort_criteria = <<>> THEN "score" ELSE sort_criteria[2]
        sort_down == IF sort_criteria = <<>> THEN TRUE ELSE sort_criteria[1] = "-"
        show_top_n == Max(show_top_n_arg, 0)
        asked == [Idle EXCEPT !.op = "leaderboard", !.author = author,
                              !.sort_criteria = sort_criteria]
        loaded == [asked EXCEPT !.sort_stat = sort_stat, !.sort_down = sort_down,
                                !.min_days = min_days,
                                !.passed_len = current_date_index + 1]
    IN  /\ IF ~ValidCriteria(sort_criteria)
           THEN out' = [asked EXCEPT !.status = "usage"]
           ELSE IF data = <<>>
           THEN out' = [loaded EXCEPT !.status = "nobody"]
           ELSE \E ranked \in {ranking(data, current_date_index, min_days, sort_stat,
                                       sort_down, now, t2, k)} :
                \E user_index \in {FindUser(ranked.entries, author, 0)} :
                \E preview \in {leaderboard_preview(ranked.entries, user_index,
                                                    show_top_n)} :
                    out' = IF ranked.raised
                           THEN [loaded EXCEPT !.status = "raised"]
                           ELSE [loaded EXCEPT !.status = "ok",
                                               !.show_top_n = show_top_n,
                                               !.global_leaderboard = ranked.entries,
                                               !.user_index = user_index,
                                               !.leaderboard_top = preview.top,
                                               !.leaderboard_chunk = preview.chunk]
        /\ now' = t2
        /\ UNCHANGED data

(***************************************************************************)
(* The bot: commands of two users arrive in any order while time passes.   *)
(***************************************************************************)
Users == {1, 2}
HoursArgs ==
    {NoHours, FloatText(LOWER * MINUTES), ClockText(DAY_HOURS, 0),
     FloatText((DAY_HOURS + 1) * MINUTES), ClockText(DAY_HOURS, MINUTES \div 2)}
NightArgs == {None, 0, 1, DAYS, DAYS + 1}
ConfirmArgs == {None, 0, 1}

Init ==
    /\ now = PRE_PERIOD
    /\ data = <<>>
    /\ out = Idle
    /\ locked = FALSE
    /\ tasks = <<>>

\* Time passes to the next instant.
Tick ==
    /\ \E t \in BotClock :
          /\ t > now
          /\ \A u \in BotClock : u > now => t <= u
          /\ now' = t
    /\ UNCHANGED <<data, out, locked, tasks>>

\* A command handled in one piece: no await lies between its taking and its
\* releasing of the lock, so the lock is as it was and no task is in flight.
Slept ==
    /\ \E author \in Users, hours_slept \in HoursArgs, night \in NightArgs :
          slept(author, hours_slept, night)
    /\ UNCHANGED <<locked, tasks>>

Profile ==
    /\ \E target \in Users, t2 \in Later(now) : profile(target, t2)
    /\ UNCHANGED <<locked, tasks>>

Reset ==
    /\ \E author \in Users, confirm_code \in ConfirmArgs : reset(author, confirm_code)
    /\ UNCHANGED <<locked, tasks>>

Leaderboard ==
    /\ \E author \in Users, t2 \in Later(now) :
       \E k \in IF t2 = now THEN {0} ELSE 0..Len(data) :
           leaderboard(author, <<>>, DEFAULT_MIN_DAYS, DEFAULT_TOP_N, t2, k)
    /\ UNCHANGED <<locked, tasks>>

Next == Tick \/ Slept \/ Profile \/ Reset \/ Leaderboard

Spec == Init /\ [][Next]_vars

(***************************************************************************)
(* One leaderboard request over a stored user map.  Every record below is  *)
(* one the slept command can write: before the period every night may be   *)
(* logged.  The i-th of n users has the id n + 1 - i.                      *)
(***************************************************************************)
RecordOf(hours, nights) == [k \in 1..DAYS |-> IF k \in nights THEN hours ELSE None]

UserMaps(n, records) ==
    {[i \in 1..n |-> [id |-> n + 1 - i, rec |-> f[i]]] : f \in [1..n -> records]}

\* Ranking: few users, records that tie and differ, every sort direction.
MaxRanked == 3
RankRecords ==
    {RecordOf(0, 1..DAYS), RecordOf(DAY_HOURS * MINUTES, 1..DAYS),
     RecordOf(LOWER * MINUTES, {1})}
RankClock == {PRE_PERIOD, FIRST_NIGHT_END, SECOND_NIGHT}
RankCriteria ==
    {<<>>, <<"+", "score">>, <<"-", "days">>, <<"+", "mean">>, <<"-", "zzz">>}
RankMinDays == {DEFAULT_MIN_DAYS, 5}

InitRank ==
    /\ now \in RankClock
    /\ data \in UNION {UserMaps(n, RankRecords) : n \in 0..MaxRanked}
    /\ out = Idle
    /\ locked = FALSE
    /\ tasks = <<>>

\* The requester is the user stored last or a user without data.
RankRequest ==
    /\ out.op = "idle"
    /\ \E author \in {1, Len(data) + 1}, sort_criteria \in RankCriteria,
          min_days \in RankMinDays, t2 \in Later(now) :
       \E k \in IF t2 = now THEN {0} ELSE 0..Len(data) :
           leaderboard(author, sort_criteria, min_days, DEFAULT_TOP_N, t2, k)
    /\ UNCHANGED <<locked, tasks>>

SpecRank == InitRank /\ [][RankRequest]_vars

\* Preview: more users than the preview shows, every preview size.
MaxUsers == 5
WindowRecords == {RecordOf(LOWER * MINUTES, {1}), RecordOf(0, {1, 2})}
WindowTops == {-1, 0, 1, DEFAULT_TOP_N}
WindowMinDays == {DEFAULT_MIN_DAYS, 2}

InitWindow ==
    /\ now = SECOND_NIGHT
    /\ data \in UNION {UserMaps(n, WindowRecords) : n \in 0..MaxUsers}
    /\ out = Idle
    /\ locked = FALSE
    /\ tasks = <<>>

WindowRequest ==
    /\ out.op = "idle"
    /\ \E author \in 1..(Len(data) + 1), min_days \in WindowMinDays,
          show_top_n \in WindowTops, t2 \in Later(now) :
           leaderboard(author, <<>>, min_days, show_top_n, t2, 0)
    /\ UNCHANGED <<locked, tasks>>

SpecWindow == InitWindow /\ [][WindowRequest]_vars

(***************************************************************************)
(* Properties of the leaderboard preview.                                  *)
(***************************************************************************)
Shown == out.op = "leaderboard" /\ out.status = "ok"

RankedIds == {out.global_leaderboard[i].id : i \in DOMAIN out.global_leaderboard}

Present == Shown /\ out.author \in RankedIds

\* The requester's 0-based rank, when present.
RequesterRank ==
    (CHOOSE i \in DOMAIN out.global_leaderboard :
        out.global_leaderboard[i].id = out.author) - 1

\* The entries at the ranks a .. b-1, clipped to the ranking.
Ranks(a, b) ==
    LET n == Len(out.global_leaderboard)
        lo == Min(Max(a, 0), n)
        hi == Min(Max(b, 0), n)
    IN  [k \in 1..(hi - lo) |-> out.global_leaderboard[lo + k]]

\* C1: for a requester at rank r and a preview size topN >= 0, with radius 2:
\* if r - 2 <= topN + 1 the top slice is ranks 0 .. max(topN, r + 3) - 1 and
\* there is no context slice; otherwise the top slice is ranks 0 .. topN - 1
\* and the context slice is ranks r - 2 .. r + 2 (clipped to the ranking).
C1_WindowSelection ==
    Present =>
        LET r == RequesterRank
            topN == out.show_top_n
        IN  /\ topN >= 0
            /\ IF r - 2 <= topN + 1
               THEN /\ out.leaderboard_top = Ranks(0, Max(topN, r + 3))
                    /\ out.leaderboard_chunk = <<>>
               ELSE /\ out.leaderboard_top = Ranks(0, topN)
                    /\ out.leaderboard_chunk = Ranks(r - 2, r + 3)

\* A merged preview that the requester's window extends past the top block,
\* with ranks left over behind it.
C1_Witness ==
    /\ Present
    /\ out.leaderboard_chunk = <<>>
    /\ Len(out.leaderboard_top) = RequesterRank + 3
    /\ out.show_top_n < Len(out.leaderboard_top)
    /\ Len(out.leaderboard_top) < Len(out.global_leaderboard)

\* C2: a requester who is not in the ranking gets no context slice.
C2_NotFoundNoContext ==
    (Shown /\ out.author \notin RankedIds) => out.leaderboard_chunk = <<>>

\* C3: a requester in the ranking sees their own entry in the top slice or in
\* the context slice; a context slice shares no entry with the top slice and
\* at least one rank lies between the two.
C3_RequesterVisible ==
    Present =>
        LET r == RequesterRank
            top == out.leaderboard_top
            chunk == out.leaderboard_chunk
            mine == out.global_leaderboard[r + 1]
        IN  /\ \/ r < Len(top) /\ top[r + 1] = mine
               \/ \E i \in DOMAIN chunk : chunk[i] = mine
            /\ chunk # <<>> =>
                 /\ \A i \in DOMAIN top, j \in DOMAIN chunk : top[i].id # chunk[j].id
                 /\ top = Ranks(0, Len(top))
                 /\ \E first \in (Len(top) + 1)..r :
                       chunk = Ranks(first, first + Len(chunk))

\* A preview in two slices: the requester stands in the context slice.
C3_Witness ==
    /\ Present
    /\ out.leaderboard_chunk # <<>>
    /\ \E i \in DOMAIN out.leaderboard_chunk :
          out.leaderboard_chunk[i].id = out.author

(***************************************************************************)
(* Properties of the ranking.                                              *)
(***************************************************************************)
\* The value the ranking was sorted by, at the 1-based position i.
SortKey(i) == out.global_leaderboard[i].sleep_stats[out.sort_stat]

\* The order asked for: descending for "-" and without criteria.
AskedDescending == out.sort_criteria = <<>> \/ out.sort_criteria[1] = "-"

\* C5: the ranking is ordered by the chosen field in the chosen direction
\* (descending for "-" and by default, ascending for "+"); users with equal
\* values keep the order of the stored user map in both directions; the
\* requester's rank is the position of the first entry with the requester's id.
C5_SortedStable ==
    Shown =>
        LET gl == out.global_leaderboard
        IN  /\ out.sort_stat = IF out.sort_criteria = <<>> THEN "score"
                               ELSE out.sort_criteria[2]
            /\ \A i, j \in DOMAIN gl :
                  i < j =>
                    /\ IF AskedDescending THEN SortKey(i) >= SortKey(j)
                       ELSE SortKey(i) <= SortKey(j)
                    /\ SortKey(i) = SortKey(j) =>
                          IndexOf(data, gl[i].id) < IndexOf(data, gl[j].id)
            /\ out.author \in RankedIds =>
                  /\ out.user_index < Len(gl)
                  /\ gl[out.user_index + 1].id = out.author
                  /\ \A i \in 1..out.user_index : gl[i].id # out.author

\* A descending ranking with a tie and a strict step, the requester not first.
C5_Witness ==
    /\ Present
    /\ AskedDescending
    /\ out.user_index > 0
    /\ \E i, j \in DOMAIN out.global_leaderboard :
          i < j /\ SortKey(i) = SortKey(j)
    /\ \E i, j \in DOMAIN out.global_leaderboard :
          i < j /\ SortKey(i) > SortKey(j)

\* The readings of a ranked user that the statistics were computed from.
WindowOf(user_id) == SubSeq(Get(data, user_id), 1, out.passed_len)

Uniform(window, hours) == \A k \in DOMAIN window : window[k] = hours

\* C8: over a full window, a user who logged 0h on every day and a user who
\* logged 24h on every day have the same score.
C8_ZeroAndFullDayEqual ==
    Shown =>
        \A i, j \in DOMAIN out.global_leaderboard :
            LET a == out.global_leaderboard[i]
                b == out.global_leaderboard[j]
            IN  (Uniform(WindowOf(a.id), 0)
                 /\ Uniform(WindowOf(b.id), DAY_HOURS * MINUTES))
                => a.sleep_stats.score = b.sleep_stats.score

\* Both users are ranked over a window of several days.
C8_Witness ==
    /\ Shown
    /\ out.passed_len > 1
    /\ \E i, j \in DOMAIN out.global_leaderboard :
          /\ Uniform(WindowOf(out.global_leaderboard[i].id), 0)
          /\ Uniform(WindowOf(out.global_leaderboard[j].id), DAY_HOURS * MINUTES)
          /\ out.global_leaderboard[i].sleep_stats.days = out.passed_len

(***************************************************************************)
(* Properties of the statistics, as the commands compute them.             *)
(***************************************************************************)
Profiled == out.op = "profile" /\ out.status = "ok"

\* The number of set readings of a stored user inside the passed window.
SetReadings(user_id) ==
    Cardinality({k \in 1..out.passed_len : Get(data, user_id)[k] # None})

\* C4: building the leaderboard never fails; a user without a set reading in
\* the active window is left out, and the ranking holds exactly the other
\* users with at least min_days days.
C4_LeaderboardNeverFails ==
    out.op = "leaderboard" =>
        /\ out.status # "raised"
        /\ out.status = "ok" =>
              RankedIds = {u \in Keys(data) :
                             SetReadings(u) >= 1 /\ SetReadings(u) >= out.min_days}

\* The statistics a command computed, each with the id of its user.
Computed ==
    IF Profiled THEN {[id |-> out.author, sleep_stats |-> out.sleep_stats]}
    ELSE IF Shown
    THEN {out.global_leaderboard[i] : i \in DOMAIN out.global_leaderboard}
    ELSE {}

\* The clock read inside compute_sleep_stats agreed with the passed window.
SameWindow(e) == e.sleep_stats.days_unlogged = out.passed_len - e.sleep_stats.days

\* C6: the score is never negative (readings in [0,24], at least one set,
\* window of 1..31 days), unlogged days included.
C6_ScoreNonNegative ==
    \A e \in Computed : SameWindow(e) => e.sleep_stats.score >= 0

\* The score the formula with scoreOffset = w * 8 gives, in score units.
ScoreByWindow(e) ==
    LET w == out.passed_len
        stats == e.sleep_stats
        unlogged == w - stats.days
        total == SeqSum(SelectSeq(WindowOf(e.id), LAMBDA h : h # None))
        \* mean <= 8 + 1/(1 + 8/15) = 199/23 hours
        low == total * 23 <= stats.days * MINUTES * 199
        imputed == unlogged * 2 * stats.deviation
        deficit == stats.deficit + (IF low THEN imputed ELSE 0)
        surplus == stats.surplus + (IF low THEN 0 ELSE imputed)
        full == UNIT * (w * 8 * MINUTES - deficit) - ((UNIT * 8) \div 15) * surplus
    IN  IF unlogged > stats.days THEN full \div 2 ELSE full

\* C7: score = w * 8 - adjustedDeficit - adjustedSurplus * 8/15, halved when
\* unlogged > days, with unlogged = w - days and the unlogged days imputed at
\* 2 * deviation each on the side of the mean.
C7_ScoreFollowsWindow ==
    \A e \in Computed :
        SameWindow(e) => e.sleep_stats.score = ScoreByWindow(e)

\* Every set reading of the user's window is 8h.
AllEight(user_id) ==
    \A k \in 1..out.passed_len :
        Get(data, user_id)[k] \in {None, LOWER * MINUTES}

\* C9: a user with 8h on every logged day has no deficit and no surplus, and
\* no user with as many logged days over the same window scores higher.
C9_EightIsMaximal ==
    Shown =>
        \A a, b \in Computed :
            (AllEight(a.id) /\ a.sleep_stats.days = b.sleep_stats.days)
            => /\ a.sleep_stats.deficit = 0
               /\ a.sleep_stats.surplus = 0
               /\ a.sleep_stats.score >= b.sleep_stats.score

\* C10: the statistics depend on the passed readings only: unlogged is the
\* length of the passed window minus days, and equal windows give equal
\* statistics whatever the clock shows when each is computed.
C10_StatsIgnoreClock ==
    /\ \A e \in Computed : SameWindow(e)
    /\ \A a, b \in Computed :
          WindowOf(a.id) = WindowOf(b.id) => a.sleep_stats = b.sleep_stats

(***************************************************************************)
(* The time window resolver on its own: one resolution at any hour of      *)
(* September, October or November.                                         *)
(***************************************************************************)
NOVEMBER_DAYS == 30

IndexClock == 0..((SEPTEMBER_DAYS + OCTOBER_DAYS + NOVEMBER_DAYS) * DAY_HOURS - 1)

InitIndex ==
    /\ now \in IndexClock
    /\ data = <<>>
    /\ out = Idle
    /\ locked = FALSE
    /\ tasks = <<>>

IndexRequest ==
    /\ out.op = "idle"
    /\ out' = [op |-> "index",
               sleeptober_index |-> get_sleeptober_index(now),
               saturating_sleeptober_index |-> get_saturating_sleeptober_index(now)]
    /\ UNCHANGED <<now, data, locked, tasks>>

SpecIndex == InitIndex /\ [][IndexRequest]_vars

(***************************************************************************)
(* Properties of the time window resolver.                                 *)
(***************************************************************************)
Resolved == out.op = "index"

\* The instants whose lagged date is the given day of October: from 22:00 of
\* that day to 22:00 of the next.
LaggedDay(d) == (October(d, 0) + LAG_HOURS)..(October(d + 1, 0) + LAG_HOURS - 1)

\* C11: the index is (day of month - 1) of the instant 22 hours back when
\* that instant lies in October and none otherwise (01:00 on the 3rd gives
\* 1); the saturating index is the index when there is one and 30 otherwise,
\* before the period and after it.
C11_IndexOfLaggedDay ==
    Resolved =>
        /\ \A d \in 1..OCTOBER_DAYS :
              now \in LaggedDay(d) => out.sleeptober_index = d - 1
        /\ (\A d \in 1..OCTOBER_DAYS : now \notin LaggedDay(d))
              => out.sleeptober_index = None
        /\ now = October(3, 1) => out.sleeptober_index = 1
        /\ out.saturating_sleeptober_index =
              IF out.sleeptober_index = None THEN SATURATED_INDEX
              ELSE out.sleeptober_index

\* 01:00 on the 3rd of October has been resolved to the night of the 2nd.
C11_Witness ==
    /\ Resolved
    /\ now = October(3, 1)
    /\ out.sleeptober_index = 1
    /\ out.saturating_sleeptober_index = 1

(***************************************************************************)
(* slept and profile reset in flight together.  Each command is a task     *)
(* that moves through its handler one statement at a time, and the tasks   *)
(* interleave at every statement:                                          *)
(*   start   -> the checks of the arguments (slept 234-278, reset 405-418) *)
(*   acquire -> async with DATA_FILE_LOCK             (lines 281, 420)     *)
(*   load    -> data = load_data()                    (lines 282, 421)     *)
(*   store   -> the change and store_data(data)       (lines 283-284,      *)
(*                                                     422-423)            *)
(*   release -> the end of the async with block                            *)
(* and ends as done, rejected (a check refused it) or raised (load_data    *)
(* raised inside the block, which the async with leaves by releasing).     *)
(***************************************************************************)
MaxTasks == 3

Request(op, author, hours_slept, night, confirm_code) ==
    [op |-> op, author |-> author, hours_slept |-> hours_slept, night |-> night,
     confirm_code |-> confirm_code]

\* Two writes of one slot, a write for another user, a refused write, a
\* confirmed reset and an unconfirmed one.
LockRequests ==
    {Request("slept", 1, FloatText(LOWER * MINUTES), None, None),
     Request("slept", 1, ClockText(DAY_HOURS, 0), 1, None),
     Request("slept", 2, FloatText(LOWER * MINUTES), 2, None),
     Request("slept", 2, FloatText((DAY_HOURS + 1) * MINUTES), 1, None),
     Request("reset", 1, NoHours, None, confirm_code_expected(1)),
     Request("reset", 2, NoHours, None, None)}

LockClock == {PRE_PERIOD, FIRST_NIGHT}

NewTask(request) ==
    [request |-> request, pc |-> "start", date_index |-> None, local |-> <<>>]

InitLock ==
    /\ now \in LockClock
    /\ data = <<>>
    /\ out = Idle
    /\ locked = FALSE
    /\ tasks \in [1..MaxTasks -> {NewTask(request) : request \in LockRequests}]

\* The checks before the lock: the task goes on to the lock when they pass.
TaskStart(t) ==
    /\ tasks[t].pc = "start"
    /\ LET request == tasks[t].request
           date_index == slept_date_index(request.night, now)
           status == IF request.op = "slept"
                     THEN slept_status(request.hours_slept, date_index)
                     ELSE reset_status(request.author, request.confirm_code)
       IN  tasks' = [tasks EXCEPT ![t].pc = IF status = "ok" THEN "acquire"
                                             ELSE "rejected",
                                  ![t].date_index =
                                      IF status = "ok" /\ request.op = "slept"
                                      THEN date_index ELSE None]
    /\ UNCHANGED <<now, data, out, locked>>

\* The same step entering the block whether or not the lock is held.
TaskAcquireUnguarded(t) ==
    /\ tasks[t].pc = "acquire"
    /\ locked' = TRUE
    /\ tasks' = [tasks EXCEPT ![t].pc = "load"]
    /\ UNCHANGED <<now, data, out>>

\* async with DATA_FILE_LOCK: the task waits while the lock is held.
TaskAcquire(t) ==
    /\ tasks[t].pc = "acquire"
    /\ ~locked
    /\ locked' = TRUE
    /\ tasks' = [tasks EXCEPT ![t].pc = "load"]
    /\ UNCHANGED <<now, data, out>>

\* data = load_data()
TaskLoad(t) ==
    /\ tasks[t].pc = "load"
    /\ tasks' = [tasks EXCEPT ![t].pc = "store", ![t].local = data]
    /\ UNCHANGED <<now, data, out, locked>>

\* load_data() raises: the async with block is left and the lock released.
TaskLoadRaises(t) ==
    /\ tasks[t].pc = "load"
    /\ locked' = FALSE
    /\ tasks' = [tasks EXCEPT ![t].pc = "raised"]
    /\ UNCHANGED <<now, data, out>>

\* What a task's change makes of the data it holds.
Changed(d, task) ==
    IF task.request.op = "slept"
    THEN SetDefaultAt(d, task.request.author, task.date_index,
                      parse_hours(task.request.hours_slept))
    ELSE Pop(d, task.request.author)

\* The change of the loaded data and store_data(data).
TaskStore(t) ==
    /\ tasks[t].pc = "store"
    /\ data' = Changed(tasks[t].local, tasks[t])
    /\ tasks' = [tasks EXCEPT ![t].pc = "release", ![t].local = <<>>]
    /\ UNCHANGED <<now, out, locked>>

\* The end of the async with block.
TaskRelease(t) ==
    /\ tasks[t].pc = "release"
    /\ locked' = FALSE
    /\ tasks' = [tasks EXCEPT ![t].pc = "done"]
    /\ UNCHANGED <<now, data, out>>

LockNext ==
    \E t \in DOMAIN tasks :
        \/ TaskStart(t)
        \/ TaskAcquire(t)
        \/ TaskLoad(t)
        \/ TaskLoadRaises(t)
        \/ TaskStore(t)
        \/ TaskRelease(t)

SpecLock == InitLock /\ [][LockNext]_vars

(***************************************************************************)
(* Properties of the data lock.                                            *)
(***************************************************************************)
InSpan(t) == tasks[t].pc \in {"load", "store", "release"}

\* The tasks whose change has been stored.
Stored == {t \in DOMAIN tasks : tasks[t].pc \in {"release", "done"}}

\* Every order in which the given tasks can run one after the other.
Orders(S) ==
    {order \in [1..Cardinality(S) -> S] :
        \A i, j \in 1..Cardinality(S) : i # j => order[i] # order[j]}

\* The data after the tasks of the order have run alone, one after the other.
RECURSIVE Serial(_, _)
Serial(order, n) ==
    IF n = 0 THEN <<>> ELSE Changed(Serial(order, n - 1), tasks[order[n]])

\* C12: however slept and reset commands interleave, at most one of them is
\* between its load and its store at a time, the lock is free whenever none
\* is (so every way out of the block released it), and no stored change is
\* lost: the data is what the stored changes give in some serial order, at
\* every moment and so when all commands have completed.
C12_LockSerialises ==
    /\ Cardinality({t \in DOMAIN tasks : InSpan(t)}) <= 1
    /\ locked <=> \E t \in DOMAIN tasks : InSpan(t)
    /\ \E order \in Orders(Stored) : data = Serial(order, Cardinality(Stored))

\* Three commands in flight: one has stored its change and left, one holds
\* the lock between its load and its store, one waits for the lock.
C12_Witness ==
    \E t1, t2, t3 \in DOMAIN tasks :
        /\ tasks[t1].pc = "done"
        /\ tasks[t2].pc = "store"
        /\ tasks[t3].pc = "acquire"
        /\ locked
        /\ data # <<>>

(***************************************************************************)
(* The commands that write the data, handled one after the other while     *)
(* time passes.                                                            *)
(***************************************************************************)
WriteNext == Tick \/ Slept \/ Reset

SpecWrite == Init /\ [][WriteNext]_vars

(***************************************************************************)
(* Properties of the slept command's writes.                               *)
(***************************************************************************)
\* What the typed hours are worth in minutes, however they were typed.
Worth(hours_slept) == hours_slept.hh * MINUTES + hours_slept.mm

\* A user's record in the given data, 31 unset slots when there is none.
RecordIn(d, user_id) ==
    IF user_id \in Keys(d) THEN Get(d, user_id) ELSE [k \in 1..DAYS |-> None]

\* What a slept step with the given arguments must do to the data.
SleptEffect(author, hours_slept, night) ==
    LET hours == parse_hours(hours_slept)
        d == IF night # None THEN night - 1 ELSE get_sleeptober_index(now)
        night_accepted ==
            IF night # None
            THEN 0 <= night - 1 /\ night - 1 <= get_saturating_sleeptober_index(now)
            ELSE get_sleeptober_index(now) # None
        accepted == out'.status = "ok"
    IN  /\ accepted <=> (hours # None /\ night_accepted)
        /\ Worth(hours_slept) < 0 \/ Worth(hours_slept) > DAY_HOURS * MINUTES
              => ~accepted
        /\ IF accepted
           THEN /\ Keys(data') = Keys(data) \cup {author}
                /\ Get(data', author) =
                      [RecordIn(data, author) EXCEPT ![d + 1] = Worth(hours_slept)]
                /\ \A u \in Keys(data) \ {author} : Get(data', u) = Get(data, u)
           ELSE data' = data

\* C13: an accepted slept submission (a given night n with 0 <= n-1 <= the
\* saturating index, or no night while the current index is defined) sets
\* that slot of the author's record to the submitted hours, on a new record
\* of 31 unset slots when the author has none, and changes no other slot and
\* no other user's record; a refused submission leaves the data unchanged;
\* every stored record has exactly 31 slots at all times.
C13_SleptWritesOneSlot ==
    /\ [](\A i \in DOMAIN data : Len(data[i].rec) = DAYS)
    /\ [][slept(out'.author, out'.hours_slept, out'.night)
             => SleptEffect(out'.author, out'.hours_slept, out'.night)]_vars

\* An accepted submission has just written a slot of a record that holds
\* another reading, beside another user's record.
C13_Witness ==
    /\ out.op = "slept"
    /\ out.status = "ok"
    /\ Len(data) = 2
    /\ Cardinality({k \in 1..DAYS : Get(data, out.author)[k] # None}) = 2

(***************************************************************************)
(* Properties of the stored records against the active window.             *)
(***************************************************************************)
\* The slots of the active window at the given instant.
ActiveWindow(t) == 1..(get_saturating_sleeptober_index(t) + 1)

\* C14: whatever slept and reset commands were handled while time passed,
\* into the period included, every stored record holds a set reading inside
\* the active window, and so neither profile nor leaderboard computes the
\* statistics of a window without a set reading.
C14_WindowNeverEmpty ==
    /\ \A i \in DOMAIN data : \E k \in ActiveWindow(now) : data[i].rec[k] # None
    /\ out.op \in {"profile", "leaderboard"} => out.status # "raised"

====
